---------------------------- MODULE Spec2Model ----------------------------
(***************************************************************************)
(* A model of datasette's request-to-SQL pipeline (src/datasette/app.py,   *)
(* src/datasette/utils.py): the catalog built by Datasette.metadata, the   *)
(* slug resolver and its canonical redirects, the thread-pooled, time-     *)
(* limited execute, and the Database / Table / Row handlers with the query *)
(* builder they use.                                                       *)
(*                                                                         *)
(* Python strings are sequences of one-character strings, so that split,   *)
(* strip, lower, format and percent-encoding are computed, not assumed.    *)
(* An optional value is a sequence of length 0 (None) or 1.                *)
(***************************************************************************)
EXTENDS Naturals, Sequences, FiniteSets, TLC

VARIABLES
    files,          \* Datasette.files: the input database files
    page_size,      \* Datasette.page_size
    num_threads,    \* Datasette.num_threads: the executor's max_workers
    db,             \* the content of the (immutable) database files
    metadata_,      \* Datasette._metadata: None until metadata() builds it
    request,        \* per request: the routed request (route, kwargs, args)
    pc,             \* per request: "new", "await" (suspended in execute) or "done"
    frame,          \* per request: the locals of the suspended handler
    future,         \* per request: the state and result of the awaited execute
    response,       \* per request: the response sent
    queue,          \* the executor's FIFO work queue
    worker,         \* per pool thread: the job it is running, if any
    connections,    \* per pool thread: threading.local() name -> connection
    submitted,      \* history: what was handed to the pool, in order
    steps           \* history: the engine operations performed so far

vars == <<files, page_size, num_threads, db, metadata_, request, pc, frame, future,
          response, queue, worker, connections, submitted, steps>>

-----------------------------------------------------------------------------
(* Bounds of the model *)

MaxRequests == 2
NumThreads == 2
MaxFiles == 2
MaxPageSize == 2
MaxCustomRows == 2

Reqs == 1..MaxRequests
Workers == 1..NumThreads

-----------------------------------------------------------------------------
(* Python values *)

None == << >>
Some(x) == <<x>>
IsNone(o) == o = << >>
Val(o) == o[1]

Chars(s) == [i \in 1..Len(s) |-> SubSeq(s, i, i)]

\* The printable ASCII characters in code point order: 32 (space) to 95, and
\* 97 to 126.
AsciiLow == Chars(" !\"#$%&'()*+,-./0123456789:;<=>?@ABCDEFGHIJKLMNOPQRSTUVWXYZ[\\]^_")
AsciiHigh == Chars("abcdefghijklmnopqrstuvwxyz{|}~")

ord(c) ==
    IF \E i \in 1..Len(AsciiLow) : AsciiLow[i] = c
    THEN 31 + (CHOOSE i \in 1..Len(AsciiLow) : AsciiLow[i] = c)
    ELSE 96 + (CHOOSE i \in 1..Len(AsciiHigh) : AsciiHigh[i] = c)
chr(n) == IF n <= 95 THEN AsciiLow[n - 31] ELSE AsciiHigh[n - 96]

IsUpper(c) == ord(c) >= 65 /\ ord(c) <= 90
IsDigit(c) == ord(c) >= 48 /\ ord(c) <= 57
IsAlpha(c) == IsUpper(c) \/ (ord(c) >= 97 /\ ord(c) <= 122)

\* str.lower()
lower(s) == [i \in 1..Len(s) |-> IF IsUpper(s[i]) THEN chr(ord(s[i]) + 32) ELSE s[i]]

\* str.strip(): leading and trailing whitespace removed
strip(s) ==
    LET keep == {i \in 1..Len(s) : s[i] # " "}
        lo == CHOOSE i \in keep : \A j \in keep : i <= j
        hi == CHOOSE i \in keep : \A j \in keep : j <= i
    IN IF keep = {} THEN << >> ELSE SubSeq(s, lo, hi)

\* The positions at which sub occurs in s
Occurrences(s, sub) ==
    {i \in 1..(Len(s) + 1 - Len(sub)) : SubSeq(s, i, i + Len(sub) - 1) = sub}

\* sub in s
Contains(s, sub) == Len(sub) <= Len(s) /\ Occurrences(s, sub) # {}

\* s.startswith(prefix)
StartsWith(s, prefix) == Len(prefix) <= Len(s) /\ SubSeq(s, 1, Len(prefix)) = prefix

\* s.rsplit(sep, 1) when sep occurs in s: the parts around its last occurrence
rsplit1(s, sep) ==
    LET occ == Occurrences(s, sep)
        last == CHOOSE i \in occ : \A j \in occ : j <= i
    IN <<SubSeq(s, 1, last - 1), SubSeq(s, last + Len(sep), Len(s))>>

\* s.split(sep) for a one-character sep
RECURSIVE split(_, _)
split(s, sep) ==
    LET occ == Occurrences(s, <<sep>>)
        first == CHOOSE i \in occ : \A j \in occ : i <= j
    IN IF Len(s) = 0 \/ occ = {} THEN <<s>>
       ELSE <<SubSeq(s, 1, first - 1)>> \o split(SubSeq(s, first + 1, Len(s)), sep)

\* sep.join(parts)
RECURSIVE join(_, _)
join(sep, parts) ==
    IF Len(parts) = 0 THEN << >>
    ELSE IF Len(parts) = 1 THEN parts[1]
    ELSE parts[1] \o sep \o join(sep, Tail(parts))

\* Python's order on strings: by code point, a proper prefix first
RECURSIVE StrLess(_, _)
StrLess(a, b) ==
    IF Len(b) = 0 THEN FALSE
    ELSE IF Len(a) = 0 THEN TRUE
    ELSE IF a[1] # b[1] THEN ord(a[1]) < ord(b[1])
    ELSE StrLess(Tail(a), Tail(b))

\* str(n) for a natural number
RECURSIVE str(_)
str(n) == IF n < 10 THEN <<chr(48 + n)>> ELSE str(n \div 10) \o <<chr(48 + (n % 10))>>

\* s.isdigit()
isdigit(s) == Len(s) > 0 /\ \A i \in 1..Len(s) : IsDigit(s[i])

\* int(s) for a string of digits
RECURSIVE int(_)
int(s) == IF Len(s) = 0 THEN 0 ELSE 10 * int(SubSeq(s, 1, Len(s) - 1)) + (ord(s[Len(s)]) - 48)

-----------------------------------------------------------------------------
(* The database files and their content *)

\* The number of digest characters that make the canonical slug: info['hash'][:7]
HashPrefixLen == 7

\* The rows a table of the fixture holds at most
MaxRows == 3

\* A row: its rowid and its cells, by column name
Row(rowid, cols, vals) ==
    [rowid |-> rowid, cells |-> [c \in {cols[i] : i \in 1..Len(cols)} |->
        vals[CHOOSE i \in 1..Len(cols) : cols[i] = c]]]

\* The tables and views of a database file. "compound" has a two-column
\* primary key, "simple" a one-column one, "plain" none (a rowid table),
\* "shown" is a view. Rows are listed in rowid order.
compound_cols == <<Chars("pk1"), Chars("pk2"), Chars("content")>>
simple_cols == <<Chars("id"), Chars("content")>>
plain_cols == <<Chars("content")>>

Fixture ==
    (Chars("compound") :> [
        columns |-> compound_cols,
        pks |-> <<Chars("pk1"), Chars("pk2")>>,
        is_view |-> FALSE,
        rows |-> << Row(1, compound_cols, <<Chars("a"), Chars("b"), Chars("x")>>),
                    Row(2, compound_cols, <<Chars("b"), Chars("a"), Chars("y")>>),
                    Row(3, compound_cols, <<Chars("b"), Chars("c"), Chars("z")>>),
                    Row(4, compound_cols, <<Chars("c"), Chars("a"), Chars("w")>>) >>])
    @@ (Chars("simple") :> [
        columns |-> simple_cols,
        pks |-> <<Chars("id")>>,
        is_view |-> FALSE,
        rows |-> << Row(1, simple_cols, <<Chars("1"), Chars("x")>>),
                    Row(2, simple_cols, <<Chars("a,b"), Chars("y")>>),
                    Row(3, simple_cols, <<Chars("c d%+/"), Chars("z")>>),
                    Row(4, simple_cols, <<Chars("e"), Chars("w")>>) >>])
    @@ (Chars("plain") :> [
        columns |-> plain_cols,
        pks |-> << >>,
        is_view |-> FALSE,
        rows |-> << Row(1, plain_cols, <<Chars("x")>>),
                    Row(2, plain_cols, <<Chars("y")>>),
                    Row(3, plain_cols, <<Chars("z")>>),
                    Row(4, plain_cols, <<Chars("w")>>) >>])
    @@ (Chars("shown") :> [
        columns |-> plain_cols,
        pks |-> << >>,
        is_view |-> TRUE,
        rows |-> << Row(1, plain_cols, <<Chars("x")>>),
                    Row(2, plain_cols, <<Chars("y")>>),
                    Row(3, plain_cols, <<Chars("z")>>),
                    Row(4, plain_cols, <<Chars("w")>>) >>])

\* The order of the tables in sqlite_master (the order of their creation)
CreationOrder == << Chars("simple"), Chars("plain"), Chars("compound") >>

\* The fixture with every table cut to its first k rows
Truncate(content, k) ==
    [t \in DOMAIN content |->
        [content[t] EXCEPT !.rows = SubSeq(@, 1, IF k < Len(@) THEN k ELSE Len(@))]]

\* The file stems the inputs are drawn from, and each file's sha256 digest
\* (shortened: only its first HashPrefixLen characters are ever read).
Stems == << Chars("fix"), Chars("fix-bar"), Chars("fix-a1b2c3d"), Chars("my-db") >>

DigestOf(stem) ==
    CASE stem = Chars("fix") -> Chars("a1b2c3d9")
      [] stem = Chars("fix-bar") -> Chars("0f0e0d0c")
      [] stem = Chars("fix-a1b2c3d") -> Chars("7777777f")
      [] OTHER -> Chars("c0ffee12")

File(stem) == [stem |-> stem, hash |-> DigestOf(stem)]

-----------------------------------------------------------------------------
(* The catalog: Datasette.metadata *)

FileStems(fs) == {fs[i].stem : i \in 1..Len(fs)}

\* `if name in metadata: raise Exception('Multiple files with same stem')`
HasDuplicateStem(fs) == \E i, j \in 1..Len(fs) : i < j /\ fs[i].stem = fs[j].stem

\* What the loop over self.files builds when no stem repeats
InspectFiles(fs, content) ==
    [name \in FileStems(fs) |->
        LET f == fs[CHOOSE i \in 1..Len(fs) : fs[i].stem = name]
            tables == {t \in DOMAIN content[name] : ~content[name][t].is_view}
        IN [hash |-> f.hash,
            file |-> f.stem \o Chars(".db"),
            table_names |-> SelectSeq(CreationOrder, LAMBDA t : t \in tables),
            tables |-> [t \in tables |-> Len(content[name][t].rows)]]]

\* `if self._metadata:` : None and the empty dict are falsy
Truthy(cache) == ~IsNone(cache) /\ DOMAIN Val(cache) # {}

\* A metadata() that builds the catalog and does not store it
metadata_not_stored(cache, fs, content) ==
    IF HasDuplicateStem(fs) THEN [raises |-> TRUE, value |-> << >>, cache |-> cache]
    ELSE [raises |-> FALSE, value |-> InspectFiles(fs, content), cache |-> cache]

\* Datasette.metadata(): what a call returns (or that it raises) and the
\* value of self._metadata after it.
metadata(cache, fs, content) ==
    IF Truthy(cache) THEN [raises |-> FALSE, value |-> Val(cache), cache |-> cache]
    ELSE IF HasDuplicateStem(fs) THEN [raises |-> TRUE, value |-> << >>, cache |-> cache]
    ELSE [raises |-> FALSE, value |-> InspectFiles(fs, content),
          cache |-> Some(InspectFiles(fs, content))]

-----------------------------------------------------------------------------
(* The resolver: BaseView.resolve_db_name and BaseView.redirect *)

\* info['hash'][:7]
HashPrefix(hash) == SubSeq(hash, 1, IF Len(hash) < HashPrefixLen THEN Len(hash) ELSE HashPrefixLen)

\* A reading of the slug that always splits at the last "-"
SlugPartsSplitOnly(databases, db_name) ==
    IF Contains(db_name, <<"-">>)
    THEN LET parts == rsplit1(db_name, <<"-">>)
         IN [name |-> parts[1], hash |-> Some(parts[2])]
    ELSE [name |-> db_name, hash |-> None]

\* The (name, hash) the slug is read as
SlugParts(databases, db_name) ==
    IF Contains(db_name, <<"-">>)
    THEN LET parts == rsplit1(db_name, <<"-">>)
         IN IF parts[1] \in DOMAIN databases
            THEN [name |-> parts[1], hash |-> Some(parts[2])]
            ELSE [name |-> db_name, hash |-> None]
    ELSE [name |-> db_name, hash |-> None]

\* A redirect to the bare name, without the hash
CanonicalPathBare(name, expected, kwargs) ==
    <<"/">> \o name
    \o (IF "table" \in DOMAIN kwargs THEN <<"/">> \o kwargs.table ELSE << >>)
    \o (IF "as_json" \in DOMAIN kwargs THEN kwargs.as_json ELSE << >>)
    \o (IF "as_db" \in DOMAIN kwargs THEN kwargs.as_db ELSE << >>)

\* should_redirect for a stale or missing hash
CanonicalPath(name, expected, kwargs) ==
    <<"/">> \o name \o <<"-">> \o expected
    \o (IF "table" \in DOMAIN kwargs THEN <<"/">> \o kwargs.table ELSE << >>)
    \o (IF "as_json" \in DOMAIN kwargs THEN kwargs.as_json ELSE << >>)
    \o (IF "as_db" \in DOMAIN kwargs THEN kwargs.as_db ELSE << >>)

\* A resolver that accepts any hash in the slug
resolve_db_name_any_hash(databases, db_name, kwargs) ==
    LET parts == IF Contains(db_name, <<"-">>)
                    /\ rsplit1(db_name, <<"-">>)[1] \in DOMAIN databases
                 THEN [name |-> rsplit1(db_name, <<"-">>)[1]]
                 ELSE [name |-> db_name]
        name == parts.name
    IN IF name \notin DOMAIN databases
       THEN [raises |-> TRUE, name |-> name, hash |-> << >>, should_redirect |-> None]
       ELSE [raises |-> FALSE, name |-> name, hash |-> HashPrefix(databases[name].hash),
             should_redirect |-> None]

resolve_db_name(databases, db_name, kwargs) ==
    LET parts == SlugParts(databases, db_name)
        name == parts.name
        expected == HashPrefix(databases[name].hash)
    IN IF name \notin DOMAIN databases
       THEN [raises |-> TRUE, name |-> name, hash |-> << >>, should_redirect |-> None]
       ELSE IF Some(expected) # parts.hash
       THEN [raises |-> FALSE, name |-> name, hash |-> expected,
             should_redirect |-> Some(CanonicalPath(name, expected, kwargs))]
       ELSE [raises |-> FALSE, name |-> name, hash |-> expected, should_redirect |-> None]

-----------------------------------------------------------------------------
(* The query builder: src/datasette/utils.py *)

HexDigits == Chars("0123456789ABCDEF")
HexValue(c) == (CHOOSE i \in 1..16 : HexDigits[i] = c) - 1
IsHex(c) == \E i \in 1..16 : HexDigits[i] = c

\* urllib.parse.quote_plus of one character: letters, digits and "_.-" are
\* kept, a space becomes "+", anything else "%XX"
QuoteChar(c) ==
    IF IsAlpha(c) \/ IsDigit(c) \/ c \in {"_", ".", "-"} THEN <<c>>
    ELSE IF c = " " THEN <<"+">>
    ELSE <<"%", HexDigits[(ord(c) \div 16) + 1], HexDigits[(ord(c) % 16) + 1]>>

RECURSIVE quote_plus(_)
quote_plus(s) == IF Len(s) = 0 THEN << >> ELSE QuoteChar(s[1]) \o quote_plus(Tail(s))

\* urllib.parse.unquote_plus: "+" becomes a space, "%XX" the character XX
RECURSIVE unquote_plus(_)
unquote_plus(s) ==
    IF Len(s) = 0 THEN << >>
    ELSE IF s[1] = "+" THEN <<" ">> \o unquote_plus(Tail(s))
    ELSE IF s[1] = "%" /\ Len(s) >= 3 /\ IsHex(s[2]) /\ IsHex(s[3])
            /\ 16 * HexValue(s[2]) + HexValue(s[3]) \in (32..95) \cup (97..126)
         THEN <<chr(16 * HexValue(s[2]) + HexValue(s[3]))>> \o unquote_plus(SubSeq(s, 4, Len(s)))
    ELSE <<s[1]>> \o unquote_plus(Tail(s))

compound_pks_from_path(path) ==
    LET bits == split(path, ",")
    IN [i \in 1..Len(bits) |-> unquote_plus(bits[i])]

\* row[pk] for a fetched row; the rowid is an integer, a cell a string
RowId(row) == str(row.rowid)

\* A cursor of the raw values, joined without percent-encoding
path_from_row_pks_raw(row, pks, use_rowid) ==
    IF use_rowid THEN RowId(row)
    ELSE join(<<",">>, [i \in 1..Len(pks) |-> row.cells[pks[i]]])

path_from_row_pks(row, pks, use_rowid) ==
    IF use_rowid THEN quote_plus(RowId(row))
    ELSE join(<<",">>, [i \in 1..Len(pks) |-> quote_plus(row.cells[pks[i]])])

\* sorted(keys)
RECURSIVE Sorted(_)
Sorted(S) ==
    IF S = {} THEN << >>
    ELSE LET least == CHOOSE x \in S : \A y \in S \ {x} : StrLess(x, y)
         IN <<least>> \o Sorted(S \ {least})

\* The lookups of build_where_clauses and the operator of each template
Lookups == { Chars("exact"), Chars("contains"), Chars("endswith"), Chars("startswith"),
             Chars("gt"), Chars("gte"), Chars("lt"), Chars("lte"), Chars("glob"),
             Chars("like") }

LookupOperator(lookup) ==
    CASE lookup = Chars("exact") -> Chars("=")
      [] lookup \in {Chars("contains"), Chars("endswith"), Chars("startswith"),
                     Chars("like")} -> Chars("like")
      [] lookup = Chars("gt") -> Chars(">")
      [] lookup = Chars("gte") -> Chars(">=")
      [] lookup = Chars("lt") -> Chars("<")
      [] lookup = Chars("lte") -> Chars("<=")
      [] lookup = Chars("glob") -> Chars("glob")

\* A bound value: a string, or the integer a numeric lookup converts it to
StrParam(s) == [int |-> FALSE, s |-> s, n |-> 0]
IntParam(n) == [int |-> TRUE, s |-> << >>, n |-> n]

\* value_convert, then the conversion of an all-digit value of a numeric lookup
ConvertValue(lookup, value) ==
    LET converted ==
            CASE lookup = Chars("contains") -> <<"%">> \o value \o <<"%">>
              [] lookup = Chars("endswith") -> <<"%">> \o value
              [] lookup = Chars("startswith") -> value \o <<"%">>
              [] OTHER -> value
    IN IF lookup \in {Chars("gt"), Chars("gte"), Chars("lt"), Chars("lte")}
          /\ isdigit(converted)
       THEN IntParam(int(converted))
       ELSE StrParam(converted)

\* (column, lookup) of a filter key
KeyColumn(key) == IF Contains(key, Chars("__")) THEN rsplit1(key, Chars("__"))[1] ELSE key
KeyLookup(key) == IF Contains(key, Chars("__")) THEN rsplit1(key, Chars("__"))[2] ELSE Chars("exact")

\* 'p{}'.format(i)
ParamId(i) == <<"p">> \o str(i)

\* One comparison: its text, template.format(column, param_id), and its
\* reading by the engine
Clause(column, operator, param_id) ==
    [text |-> <<"\"">> \o column \o <<"\"">> \o <<" ">> \o operator \o Chars(" :") \o param_id,
     column |-> column, operator |-> operator, param |-> param_id]

\* build_where_clauses(args): the clauses and the parameters, or the KeyError
\* of the template lookup
build_where_clauses(args) ==
    LET keys == Sorted(DOMAIN args)
        n == Len(keys)
    IN IF \E i \in 1..n : KeyLookup(keys[i]) \notin Lookups
       THEN [raises |-> "KeyError", clauses |-> << >>, params |-> << >>]
       ELSE [raises |-> "",
             clauses |-> [i \in 1..n |->
                 Clause(KeyColumn(keys[i]), LookupOperator(KeyLookup(keys[i])), ParamId(i - 1))],
             params |-> [id \in {ParamId(i - 1) : i \in 1..n} |->
                 LET i == CHOOSE j \in 1..n : ParamId(j - 1) = id
                 IN ConvertValue(KeyLookup(keys[i]), args[keys[i]])]]

\* A validator that checks the prefix only
validate_sql_select_prefix_only(sql) ==
    IF ~StartsWith(lower(strip(sql)), Chars("select ")) THEN "Statement must begin with SELECT"
    ELSE ""

\* validate_sql_select(sql): the message of the InvalidSql raised, or ""
validate_sql_select(sql) ==
    LET lowered == lower(strip(sql))
    IN IF ~StartsWith(lowered, Chars("select ")) THEN "Statement must begin with SELECT"
       ELSE IF Contains(lowered, Chars("pragma")) THEN "Statement may not contain PRAGMA"
       ELSE ""

-----------------------------------------------------------------------------
(* The embedded engine: what a statement evaluates to on a database file *)

ParamText(v) == IF v.int THEN str(v.n) ELSE v.s

\* The value a double-quoted name denotes in a row: the rowid, the column's
\* cell, or (a name that is no column) the name itself as a string literal
CellOf(row, column) ==
    IF column = Chars("rowid") THEN IntParam(row.rowid)
    ELSE IF column \in DOMAIN row.cells THEN StrParam(row.cells[column])
    ELSE StrParam(column)

\* The engine's comparison of a value with a bound parameter: integers
\* numerically, an integer with a numeric string numerically, an integer
\* below any other string, strings by code point
Compare(a, b) ==
    IF a.int /\ (b.int \/ isdigit(b.s))
    THEN LET m == IF b.int THEN b.n ELSE int(b.s)
         IN IF a.n < m THEN "lt" ELSE IF a.n = m THEN "eq" ELSE "gt"
    ELSE IF a.int THEN "lt"
    ELSE IF a.s = ParamText(b) THEN "eq"
    ELSE IF StrLess(a.s, ParamText(b)) THEN "lt" ELSE "gt"

\* LIKE: "%" matches any run, "_" any character, letters without case
RECURSIVE Like(_, _)
Like(pattern, text) ==
    IF Len(pattern) = 0 THEN Len(text) = 0
    ELSE IF pattern[1] = "%"
         THEN Like(Tail(pattern), text) \/ (Len(text) > 0 /\ Like(pattern, Tail(text)))
    ELSE Len(text) > 0
         /\ (pattern[1] = "_" \/ lower(<<pattern[1]>>) = lower(<<text[1]>>))
         /\ Like(Tail(pattern), Tail(text))

\* GLOB: "*" matches any run, "?" any character
RECURSIVE Glob(_, _)
Glob(pattern, text) ==
    IF Len(pattern) = 0 THEN Len(text) = 0
    ELSE IF pattern[1] = "*"
         THEN Glob(Tail(pattern), text) \/ (Len(text) > 0 /\ Glob(pattern, Tail(text)))
    ELSE Len(text) > 0
         /\ (pattern[1] = "?" \/ pattern[1] = text[1])
         /\ Glob(Tail(pattern), Tail(text))

Satisfies(row, clause, params) ==
    LET a == CellOf(row, clause.column)
        b == params[clause.param]
        c == Compare(a, b)
    IN CASE clause.operator = Chars("=") -> c = "eq"
         [] clause.operator = Chars(">") -> c = "gt"
         [] clause.operator = Chars(">=") -> c \in {"gt", "eq"}
         [] clause.operator = Chars("<") -> c = "lt"
         [] clause.operator = Chars("<=") -> c \in {"lt", "eq"}
         [] clause.operator = Chars("like") -> Like(ParamText(b), ParamText(a))
         [] clause.operator = Chars("glob") -> Glob(ParamText(b), ParamText(a))

\* ORDER BY columns: the rows compared column by column
RECURSIVE RowLess(_, _, _)
RowLess(a, b, order_by) ==
    IF Len(order_by) = 0 THEN a.rowid < b.rowid
    ELSE LET c == Compare(CellOf(a, order_by[1]), CellOf(b, order_by[1]))
         IN IF c = "lt" THEN TRUE
            ELSE IF c = "gt" THEN FALSE
            ELSE RowLess(a, b, Tail(order_by))

RECURSIVE OrderRows(_, _)
OrderRows(S, order_by) ==
    IF S = {} THEN << >>
    ELSE LET first == CHOOSE x \in S : \A y \in S \ {x} : RowLess(x, y, order_by)
         IN <<first>> \o OrderRows(S \ {first}, order_by)

\* select ... from "table" [where ...] [order by ...] [limit n]
Select(content, query, params) ==
    LET table == content[query.table]
        matching == {table.rows[i] : i \in {j \in 1..Len(table.rows) :
                        \A k \in 1..Len(query.clauses) :
                            Satisfies(table.rows[j], query.clauses[k], params)}}
        ordered == OrderRows(matching, query.order_by)
    IN IF query.limit > 0 /\ Len(ordered) > query.limit
       THEN SubSeq(ordered, 1, query.limit)
       ELSE ordered

\* PRAGMA table_info(table): one row per column, the last field the column's
\* position in the primary key (0 when it is not part of it)
TableInfo(content, table) ==
    IF table \notin DOMAIN content THEN << >>
    ELSE LET t == content[table]
         IN [i \in 1..Len(t.columns) |->
                [name |-> t.columns[i],
                 pk |-> IF \E j \in 1..Len(t.pks) : t.pks[j] = t.columns[i]
                        THEN CHOOSE j \in 1..Len(t.pks) : t.pks[j] = t.columns[i]
                        ELSE 0]]

-----------------------------------------------------------------------------
(* Requests, statements and the handlers' queries *)

\* request.path of a routed request: /<db_name>[/<table>[/<pk_path>]][<ext>]
RequestPath(req) ==
    <<"/">> \o req.db_name
    \o (IF "table" \in DOMAIN req.kwargs THEN <<"/">> \o req.kwargs.table ELSE << >>)
    \o (IF "pk_path" \in DOMAIN req.kwargs THEN <<"/">> \o req.kwargs.pk_path ELSE << >>)
    \o (IF "as_json" \in DOMAIN req.kwargs THEN req.kwargs.as_json ELSE << >>)
    \o (IF "as_db" \in DOMAIN req.kwargs THEN req.kwargs.as_db ELSE << >>)

\* urllib.parse.urlencode of a string-to-string mapping (keys in sorted order)
urlencode(args) ==
    LET keys == Sorted(DOMAIN args)
    IN join(<<"&">>, [i \in 1..Len(keys) |->
            quote_plus(keys[i]) \o <<"=">> \o quote_plus(args[keys[i]])])

\* request.query_string: the text request.args was parsed from
QueryString(req) == urlencode(req.args)

\* path_with_added_args(request, args)
path_with_added_args(req, added) ==
    LET current == [k \in DOMAIN req.args \cup DOMAIN added |->
                        IF k \in DOMAIN added THEN added[k] ELSE req.args[k]]
    IN RequestPath(req) \o <<"?">> \o urlencode(current)

\* A statement handed to execute: its text, its bound parameters, and the
\* reading of the text the engine evaluates. site names the call in the
\* handler; id is (request, number of the statement within the request).
Statement(site, sql, params, query) ==
    [site |-> site, sql |-> sql, params |-> params, query |-> query]

Query(table, clauses, order_by, limit) ==
    [table |-> table, clauses |-> clauses, order_by |-> order_by, limit |-> limit]

\* BaseView.pks_for_table: 'PRAGMA table_info("{}")'.format(table)
PksStatement(table) ==
    Statement("pks", Chars("PRAGMA table_info(\"") \o table \o Chars("\")"), << >>,
              Query(table, << >>, << >>, 0))

\* DatabaseView.data: 'PRAGMA table_info([{}]);'.format(table_name)
PragmaStatement(table) ==
    Statement("pragma", Chars("PRAGMA table_info([") \o table \o Chars("]);"), << >>,
              Query(table, << >>, << >>, 0))

ViewsStatement ==
    Statement("views", Chars("select name from sqlite_master where type = \"view\""), << >>,
              Query(<< >>, << >>, << >>, 0))

IsViewStatement(table) ==
    Statement("is_view",
              Chars("SELECT count(*) from sqlite_master WHERE type = 'view' and name=:n"),
              (Chars("n") :> StrParam(table)), Query(table, << >>, << >>, 0))

DefinitionStatement(table, is_view) ==
    Statement(IF is_view THEN "view_definition" ELSE "table_definition",
              Chars("select sql from sqlite_master where name = :n and type=\"")
                \o (IF is_view THEN Chars("view") ELSE Chars("table")) \o Chars("\""),
              (Chars("n") :> StrParam(table)), Query(table, << >>, << >>, 0))

\* DatabaseView.custom_sql: the user's statement with the remaining
\* arguments bound to it
CustomStatement(sql, params) ==
    Statement("custom", sql, [k \in DOMAIN params |-> StrParam(params[k])],
              Query(<< >>, << >>, << >>, 0))

\* Special args start with _ and do not contain a __
IsSpecial(key) == StartsWith(key, <<"_">>) /\ ~Contains(key, Chars("__"))

\* The clauses and parameters TableView.data adds for the _after cursor
AfterClauses(after, pks, use_rowid, n) ==
    IF Len(after) = 0 THEN [clauses |-> << >>, params |-> << >>]
    ELSE IF use_rowid
    THEN [clauses |-> << [text |-> Chars("rowid > :p") \o str(n), column |-> Chars("rowid"),
                          operator |-> Chars(">"), param |-> ParamId(n)] >>,
          params |-> (ParamId(n) :> StrParam(after))]
    ELSE LET pk_values == compound_pks_from_path(after)
         IN IF Len(pk_values) = Len(pks)
            THEN [clauses |-> [i \in 1..Len(pks) |->
                                  Clause(pks[i], Chars(">"), ParamId(n + i - 1))],
                  params |-> [id \in {ParamId(n + i - 1) : i \in 1..Len(pks)} |->
                      StrParam(pk_values[CHOOSE i \in 1..Len(pks) : ParamId(n + i - 1) = id])]]
            ELSE [clauses |-> << >>, params |-> << >>]

\* {**a, **b} for parameter dicts
Merge(a, b) == [k \in DOMAIN a \cup DOMAIN b |-> IF k \in DOMAIN b THEN b[k] ELSE a[k]]

\* TableView.data from the partition of the arguments to the page's SELECT:
\* the statement, or the exception build_where_clauses raises
TablePageStatement(args, table, pks, is_view, psize) ==
    LET use_rowid == Len(pks) = 0 /\ ~is_view
        select == IF use_rowid THEN Chars("rowid, *") ELSE Chars("*")
        order_by == IF is_view THEN << >>
                    ELSE IF use_rowid THEN Chars("rowid") ELSE join(Chars(", "), pks)
        special == {k \in DOMAIN args : IsSpecial(k)}
        other_args == [k \in DOMAIN args \ special |-> args[k]]
        built == IF DOMAIN other_args # {} THEN build_where_clauses(other_args)
                 ELSE [raises |-> "", clauses |-> << >>, params |-> << >>]
        after == IF Chars("_after") \in special THEN args[Chars("_after")] ELSE << >>
        cursor == AfterClauses(after, pks, use_rowid, Cardinality(DOMAIN built.params))
        where_clauses == built.clauses \o cursor.clauses
        params == Merge(built.params, cursor.params)
        where_clause ==
            IF Len(where_clauses) = 0 THEN << >>
            ELSE Chars("where ")
                 \o join(Chars(" and "), [i \in 1..Len(where_clauses) |-> where_clauses[i].text])
                 \o <<" ">>
        order_clause == IF Len(order_by) = 0 THEN << >>
                        ELSE Chars("order by ") \o order_by \o <<" ">>
        sql == Chars("select ") \o select \o Chars(" from \"") \o table \o Chars("\" ")
               \o where_clause \o order_clause \o Chars("limit ") \o str(psize + 1)
    IN [raises |-> built.raises,
        statement |-> Statement("page", sql, params,
            Query(table, where_clauses,
                  IF is_view THEN << >> ELSE IF use_rowid THEN <<Chars("rowid")>> ELSE pks,
                  psize + 1))]

\* RowView.data: one equality per primary key, the decoded pk_path bound
RowStatement(table, pks, pk_values) ==
    LET use_rowid == Len(pks) = 0
        select == IF use_rowid THEN Chars("rowid, *") ELSE Chars("*")
        keys == IF use_rowid THEN <<Chars("rowid")>> ELSE pks
        wheres == [i \in 1..Len(keys) |->
                      [text |-> <<"\"">> \o keys[i] \o Chars("\"=:p") \o str(i - 1),
                       column |-> keys[i], operator |-> Chars("="), param |-> ParamId(i - 1)]]
        sql == Chars("select ") \o select \o Chars(" from \"") \o table \o Chars("\" where ")
               \o join(Chars(" AND "), [i \in 1..Len(wheres) |-> wheres[i].text])
        params == [id \in {ParamId(i - 1) : i \in 1..Len(pk_values)} |->
                      StrParam(pk_values[CHOOSE i \in 1..Len(pk_values) : ParamId(i - 1) = id])]
    IN Statement("row", sql, params, Query(table, wheres, << >>, 0))

-----------------------------------------------------------------------------
(* What the engine answers to a statement *)

Result(exc, rows) ==
    [exc |-> exc, message |-> IF exc = "" THEN "" ELSE "engine error", rows |-> rows]

MissingParams(statement) ==
    \E i \in 1..Len(statement.query.clauses) :
        statement.query.clauses[i].param \notin DOMAIN statement.params

\* The rows of a generated statement on a database file, or the sqlite3
\* exception class it raises
EngineResult(content, statement) ==
    LET table == statement.query.table
        site == statement.site
    IN CASE site \in {"pks", "pragma"} -> Result("", TableInfo(content, table))
         [] site = "views" ->
                LET views == Sorted({t \in DOMAIN content : content[t].is_view})
                IN Result("", [i \in 1..Len(views) |-> [name |-> views[i]]])
         [] site = "is_view" ->
                Result("", << [count |-> IF table \in DOMAIN content /\ content[table].is_view
                                         THEN 1 ELSE 0] >>)
         [] site = "view_definition" ->
                Result("", IF table \in DOMAIN content /\ content[table].is_view
                           THEN << [sql |-> Chars("CREATE VIEW")] >> ELSE << >>)
         [] site = "table_definition" ->
                Result("", IF table \in DOMAIN content /\ ~content[table].is_view
                           THEN << [sql |-> Chars("CREATE TABLE")] >> ELSE << >>)
         [] site \in {"page", "row"} ->
                IF table \notin DOMAIN content THEN Result("OperationalError", << >>)
                ELSE IF MissingParams(statement) THEN Result("ProgrammingError", << >>)
                ELSE Result("", Select(content, statement.query, statement.params))

\* A user's statement is not interpreted: it yields some rows, or fails as an
\* engine error (OperationalError) or on its bindings (ProgrammingError)
CustomRows(n) == [i \in 1..n |-> [rowid |-> i, cells |-> << >>]]

CustomResults ==
    {Result("", CustomRows(n)) : n \in 0..MaxCustomRows}
    \cup {Result("OperationalError", << >>), Result("ProgrammingError", << >>)}

\* The deadline hook cancels the statement: sqlite3.OperationalError
Interrupted == [exc |-> "OperationalError", message |-> "interrupted", rows |-> << >>]

\* conn.execute(sql, params) under the time limit
ExecuteResults(content, statement) ==
    {Interrupted}
    \cup (IF statement.site = "custom" THEN CustomResults
          ELSE {EngineResult(content, statement)})

-----------------------------------------------------------------------------
(* The handlers as coroutines: the code between two awaits *)

NoStatement == Statement("", << >>, << >>, Query(<< >>, << >>, << >>, 0))

NoData ==
    [keys |-> {}, extra |-> {}, rows |-> << >>, lazy |-> FALSE, after |-> None,
     after_link |-> None, sql |-> << >>, params |-> << >>, tables |-> << >>,
     views |-> << >>, primary_keys |-> << >>, primary_key_values |-> << >>]

NoFrame ==
    [name |-> << >>, hash |-> << >>, view |-> FALSE, table |-> << >>, pks |-> << >>,
     is_view |-> FALSE,
     todo |-> << >>, tables |-> << >>, pk_values |-> << >>, rows |-> << >>,
     statement |-> NoStatement, count |-> 0]

Await(statement, fr) ==
    [kind |-> "await", statement |-> statement, frame |-> fr, data |-> NoData,
     exc |-> "", message |-> ""]
Return(data, fr) ==
    [kind |-> "return", statement |-> NoStatement, frame |-> fr, data |-> data,
     exc |-> "", message |-> ""]
Raise(exc, message, fr) ==
    [kind |-> "raise", statement |-> NoStatement, frame |-> fr, data |-> NoData,
     exc |-> exc, message |-> message]

\* The handler from its call by view_get to its first await
Begin(req, fr, catalog) ==
    CASE req.route = "Database" ->
            IF Chars("sql") \in DOMAIN req.args /\ Len(req.args[Chars("sql")]) > 0
            THEN \* custom_sql
                 LET sql == req.args[Chars("sql")]
                     params == [k \in DOMAIN req.args \ {Chars("sql")} |-> req.args[k]]
                     message == validate_sql_select(sql)
                 IN IF message # "" THEN Raise("InvalidSql", message, fr)
                    ELSE Await(CustomStatement(sql, params), fr)
            ELSE LET names == catalog[fr.name].table_names
                 IN IF Len(names) = 0 THEN Await(ViewsStatement, fr)
                    ELSE Await(PragmaStatement(names[1]),
                               [fr EXCEPT !.table = names[1], !.todo = Tail(names)])
      [] req.route = "Table" ->
            LET table == unquote_plus(req.kwargs.table)
            IN Await(PksStatement(table), [fr EXCEPT !.table = table])
      [] req.route = "Row" ->
            LET table == unquote_plus(req.kwargs.table)
            IN Await(PksStatement(table),
                     [fr EXCEPT !.table = table,
                                !.pk_values = compound_pks_from_path(req.kwargs.pk_path)])

\* pks_for_table: the names of the rows whose last field is truthy, sorted by it
PksOf(rows) ==
    LET pk == {i \in 1..Len(rows) : rows[i].pk # 0}
    IN [k \in 1..Cardinality(pk) |->
           rows[CHOOSE i \in pk : Cardinality({j \in pk : rows[j].pk < rows[i].pk}) = k - 1].name]

\* tables.sort(key=lambda t: t['name'])
SortTables(tables) ==
    LET names == Sorted({tables[i].name : i \in 1..Len(tables)})
    IN [k \in 1..Len(names) |-> tables[CHOOSE i \in 1..Len(tables) : tables[i].name = names[k]]]

\* A page whose cursor is taken from the last row fetched
TableDataLastFetched(req, fr, rows, psize) ==
    LET use_rowid == Len(fr.pks) = 0 /\ ~fr.is_view
        more == Len(rows) > psize
        after == IF more THEN Some(path_from_row_pks(rows[Len(rows)], fr.pks, use_rowid))
                 ELSE None
    IN [NoData EXCEPT
          !.keys = {"database", "table", "is_view", "view_definition", "table_definition",
                    "rows", "table_rows", "columns", "primary_keys", "query", "after"},
          !.extra = {"database_hash", "use_rowid", "row_link", "display_columns",
                     "after_link"},
          !.rows = SubSeq(rows, 1, IF more THEN psize ELSE Len(rows)),
          !.after = after,
          !.after_link = IF more
                         THEN Some(path_with_added_args(req, (Chars("_after") :> Val(after))))
                         ELSE None,
          !.sql = fr.statement.sql,
          !.params = fr.statement.params,
          !.primary_keys = fr.pks]

\* TableView.data after the page's rows are fetched
TableData(req, fr, rows, psize) ==
    LET use_rowid == Len(fr.pks) = 0 /\ ~fr.is_view
        more == Len(rows) > psize
        after == IF more THEN Some(path_from_row_pks(rows[Len(rows) - 1], fr.pks, use_rowid))
                 ELSE None
    IN [NoData EXCEPT
          !.keys = {"database", "table", "is_view", "view_definition", "table_definition",
                    "rows", "table_rows", "columns", "primary_keys", "query", "after"},
          !.extra = {"database_hash", "use_rowid", "row_link", "display_columns",
                     "after_link"},
          !.rows = SubSeq(rows, 1, IF more THEN psize ELSE Len(rows)),
          !.after = after,
          !.after_link = IF more
                         THEN Some(path_with_added_args(req, (Chars("_after") :> Val(after))))
                         ELSE None,
          !.sql = fr.statement.sql,
          !.params = fr.statement.params,
          !.primary_keys = fr.pks]

\* The handler from the completion of an await (its rows fetched) to the
\* next await, its return or the exception it raises
Continue(req, fr, rows, catalog, psize) ==
    LET site == fr.statement.site
    IN CASE site = "pragma" ->
              LET tables == Append(fr.tables,
                                [name |-> fr.table,
                                 columns |-> [i \in 1..Len(rows) |-> rows[i].name],
                                 table_rows |-> catalog[fr.name].tables[fr.table]])
              IN IF Len(fr.todo) > 0
                 THEN Await(PragmaStatement(fr.todo[1]),
                            [fr EXCEPT !.tables = tables, !.table = fr.todo[1],
                                       !.todo = Tail(fr.todo)])
                 ELSE Await(ViewsStatement, [fr EXCEPT !.tables = tables])
         [] site = "views" ->
              Return([NoData EXCEPT !.keys = {"database", "tables", "views"},
                                    !.extra = {"database_hash"},
                                    !.tables = SortTables(fr.tables),
                                    !.views = [i \in 1..Len(rows) |-> rows[i].name]], fr)
         [] site = "custom" ->
              Return([NoData EXCEPT !.keys = {"database", "rows", "columns", "query"},
                                    !.extra = {"database_hash", "custom_sql"},
                                    !.rows = rows, !.lazy = TRUE,
                                    !.sql = fr.statement.sql,
                                    !.params = fr.statement.params], fr)
         [] site = "pks" ->
              IF req.route = "Table"
              THEN Await(IsViewStatement(fr.table), [fr EXCEPT !.pks = PksOf(rows)])
              ELSE Await(RowStatement(fr.table, PksOf(rows), fr.pk_values),
                         [fr EXCEPT !.pks = IF Len(PksOf(rows)) = 0 THEN <<Chars("rowid")>>
                                             ELSE PksOf(rows)])
         [] site = "is_view" ->
              Await(DefinitionStatement(fr.table, rows[1].count # 0),
                    [fr EXCEPT !.is_view = rows[1].count # 0])
         [] site \in {"view_definition", "table_definition"} ->
              IF Len(rows) = 0 THEN Raise("IndexError", "list index out of range", fr)
              ELSE LET built == TablePageStatement(req.args, fr.table, fr.pks, fr.is_view, psize)
                   IN IF built.raises # "" THEN Raise(built.raises, "", fr)
                      ELSE Await(built.statement, fr)
         [] site = "page" ->
              Return(TableData(req, fr, rows, psize), [fr EXCEPT !.rows = rows])
         [] site = "row" ->
              IF Len(rows) = 0 THEN Raise("NotFound", "Record not found", fr)
              ELSE Return([NoData EXCEPT
                              !.keys = {"database", "table", "rows", "columns",
                                        "primary_keys", "primary_key_values"},
                              !.extra = {"database_hash", "row_link"},
                              !.rows = rows,
                              !.sql = fr.statement.sql,
                              !.params = fr.statement.params,
                              !.primary_keys = fr.pks,
                              !.primary_key_values = fr.pk_values],
                          [fr EXCEPT !.rows = rows])

-----------------------------------------------------------------------------
(* Responses: BaseView.redirect, BaseView.view_get and the HTTP layer *)

NoResponse ==
    [status |-> 0, location |-> << >>, link |-> << >>, json |-> FALSE, keys |-> {},
     data |-> NoData, error |-> "", unhandled |-> ""]

\* BaseView.redirect(request, path)
redirect(req, path) ==
    LET target == IF Len(QueryString(req)) > 0 THEN path \o <<"?">> \o QueryString(req)
                  ELSE path
    IN [NoResponse EXCEPT !.status = 302, !.location = target,
                          !.link = <<"<">> \o target \o Chars(">; rel=preload")]

\* An exception that leaves the handler: NotFound is answered 404 by the
\* HTTP layer, anything else 500
Unhandled(exc, message) ==
    [NoResponse EXCEPT !.status = IF exc = "NotFound" THEN 404 ELSE 500,
                       !.error = message, !.unhandled = exc]

\* DatabaseDownload.view_get
FileResponse == [NoResponse EXCEPT !.status = 200, !.keys = {"Content-Disposition"}]

IsJson(req) == "as_json" \in DOMAIN req.kwargs /\ Len(req.kwargs.as_json) > 0

\* BaseView.view_get once self.data has returned or raised. interrupted: the
\* fetch of a cursor left in data['rows'] is cancelled while it is serialized.
view_get(req, outcome, interrupted) ==
    IF outcome.kind = "raise"
    THEN IF outcome.exc \in {"OperationalError", "InvalidSql"}
         THEN [NoResponse EXCEPT !.status = 400, !.json = IsJson(req),
                                 !.keys = {"ok", "error", "database", "database_hash",
                                           "query_ms"},
                                 !.error = outcome.message]
         ELSE Unhandled(outcome.exc, outcome.message)
    ELSE IF outcome.data.lazy /\ interrupted
    THEN Unhandled("OperationalError", "interrupted")
    ELSE [NoResponse EXCEPT
            !.status = 200, !.json = IsJson(req),
            !.keys = IF IsJson(req) THEN outcome.data.keys \cup {"query_ms"}
                     ELSE outcome.data.keys \cup outcome.data.extra
                          \cup {"query_ms", "url_json", "url_jsono"},
            !.data = outcome.data]

-----------------------------------------------------------------------------
(* The state machine *)

NoRequest == [route |-> "", db_name |-> << >>, kwargs |-> << >>, args |-> << >>]

NoFuture == [state |-> "none", id |-> <<0, 0>>, exc |-> "", message |-> "",
             rows |-> << >>, worker |-> 0]

Job(r, fr, statement) ==
    [id |-> <<r, fr.count + 1>>, req |-> r, db_name |-> fr.name, statement |-> statement]

\* The handler of request r suspends in execute (run_in_executor), returns or
\* raises; view_get and the HTTP layer answer
Advance(r, req, outcome, interrupted) ==
    IF outcome.kind = "await"
    THEN /\ pc' = [pc EXCEPT ![r] = "await"]
         /\ frame' = [frame EXCEPT ![r] =
                [outcome.frame EXCEPT !.statement = outcome.statement, !.count = @ + 1]]
         /\ queue' = Append(queue, Job(r, outcome.frame, outcome.statement))
         /\ future' = [future EXCEPT ![r] =
                [NoFuture EXCEPT !.state = "queued", !.id = <<r, outcome.frame.count + 1>>]]
         /\ submitted' = submitted \cup
                {[req |-> r, site |-> outcome.statement.site, sql |-> outcome.statement.sql]}
         /\ UNCHANGED response
    ELSE /\ pc' = [pc EXCEPT ![r] = "done"]
         /\ frame' = [frame EXCEPT ![r] = outcome.frame]
         /\ response' = [response EXCEPT ![r] = view_get(req, outcome, interrupted)]
         /\ future' = [future EXCEPT ![r] = NoFuture]
         /\ UNCHANGED <<queue, submitted>>

\* BaseView.get answers without calling view_get, or DatabaseDownload's
\* view_get answers without a query; fr holds the locals of get
Answer(r, resp, fr) ==
    /\ pc' = [pc EXCEPT ![r] = "done"]
    /\ response' = [response EXCEPT ![r] = resp]
    /\ frame' = [frame EXCEPT ![r] = fr]
    /\ UNCHANGED <<future, queue, submitted>>

\* BaseView.get: a routed request arrives on the event loop
Get(r, req) ==
    /\ pc[r] = "new"
    /\ \A q \in Reqs : q < r => pc[q] # "new"
    /\ request' = [request EXCEPT ![r] = req]
    /\ LET md == metadata(metadata_, files, db)
           res == resolve_db_name(md.value, req.db_name, req.kwargs)
           fr == [NoFrame EXCEPT !.name = res.name, !.hash = res.hash]
       IN /\ metadata_' = md.cache
          /\ IF md.raises
             THEN Answer(r, Unhandled("Exception", "Multiple files with same stem"), NoFrame)
             ELSE IF res.raises
             THEN Answer(r, Unhandled("NotFound", "Database not found"), NoFrame)
             ELSE IF ~IsNone(res.should_redirect)
             THEN Answer(r, redirect(req, Val(res.should_redirect)), fr)
             ELSE IF req.route = "DatabaseDownload"
             THEN Answer(r, FileResponse, [fr EXCEPT !.view = TRUE])
             ELSE Advance(r, req, Begin(req, [fr EXCEPT !.view = TRUE], md.value), FALSE)
    /\ UNCHANGED <<files, page_size, num_threads, db, worker, connections, steps>>

\* An executor that hands its threads the newest work item
AdmitNewest(q) == [job |-> q[Len(q)], queue |-> SubSeq(q, 1, Len(q) - 1)]

\* The executor's work queue: an idle thread takes the oldest item
Admit(q) == [job |-> Head(q), queue |-> Tail(q)]

\* A lookup that never finds the cached connection
CachedConnectionMissed(cache, db_name) == None

\* conn = getattr(connections, db_name, None) on the thread's local cache;
\* a connection object is truthy
CachedConnection(cache, db_name) ==
    IF db_name \in DOMAIN cache THEN Some(cache[db_name]) ELSE None

\* A pool thread takes the oldest job: sql_operation_in_thread up to
\* conn.execute, with the connection opened on first use and the deadline
\* hook installed by sqlite_timelimit
WorkerStart(w) ==
    /\ w <= num_threads
    /\ IsNone(worker[w])
    /\ Len(queue) > 0
    /\ LET job == Admit(queue).job
           cached == ~IsNone(CachedConnection(connections[w], job.db_name))
           md == metadata(metadata_, files, db)
           conn == IF cached THEN Val(CachedConnection(connections[w], job.db_name))
                   ELSE [file |-> md.value[job.db_name].file, handler |-> None,
                         id |-> <<w, job.id>>]
       IN /\ metadata_' = IF cached THEN metadata_ ELSE md.cache
          /\ connections' = [connections EXCEPT ![w] =
                 Merge(@, (job.db_name :> [conn EXCEPT !.handler = Some(job.id)]))]
          /\ worker' = [worker EXCEPT ![w] = Some(job)]
          /\ future' = [future EXCEPT ![job.req].state = "running"]
    /\ queue' = Admit(queue).queue
    /\ UNCHANGED <<files, page_size, num_threads, db, request, pc, frame, response, submitted,
                   steps>>

\* sqlite_timelimit after its yield: the hook is removed when the body
\* returned; an exception raised in the body leaves the generator at the
\* yield, and the hook stays
sqlite_timelimit_exit(conn, raised) ==
    IF raised THEN conn ELSE [conn EXCEPT !.handler = None]

\* conn.execute returns the cursor or raises, and the job's future completes
WorkerFinish(w) ==
    /\ ~IsNone(worker[w])
    /\ LET job == Val(worker[w])
       IN \E result \in ExecuteResults(db[job.db_name], job.statement) :
            /\ connections' = [connections EXCEPT ![w][job.db_name] =
                   sqlite_timelimit_exit(@, result.exc # "")]
            /\ future' = [future EXCEPT ![job.req] =
                   [state |-> "done", id |-> job.id, exc |-> result.exc,
                    message |-> result.message, rows |-> result.rows, worker |-> w]]
            /\ steps' = steps \cup
                   {[op |-> "execute", thread |-> "worker", hook |-> "own", busy |-> FALSE]}
    /\ worker' = [worker EXCEPT ![w] = None]
    /\ UNCHANGED <<files, page_size, num_threads, db, metadata_, request, pc, frame, response, queue,
                   submitted>>

\* The state of the deadline hook of connection (w, name) as statement id
\* sees it
HookFor(w, name, id) ==
    LET handler == connections[w][name].handler
    IN IF IsNone(handler) THEN "none" ELSE IF Val(handler) = id THEN "own" ELSE "other"

\* Whether worker w is executing a statement on its connection to name
Busy(w, name) == ~IsNone(worker[w]) /\ Val(worker[w]).db_name = name

\* The engine operations the event loop performs on the returned cursor:
\* rows.description where the handler reads it, and the stepping of the
\* statement when its rows are iterated
LoopSteps(fut, fr) ==
    LET at == [thread |-> "loop", hook |-> HookFor(fut.worker, fr.name, fut.id),
               busy |-> Busy(fut.worker, fr.name)]
    IN (IF fr.statement.site \in {"custom", "page", "row"}
        THEN {[op |-> "description", thread |-> at.thread, hook |-> at.hook, busy |-> at.busy]}
        ELSE {})
       \cup (IF Len(fut.rows) > 0
             THEN {[op |-> "fetch", thread |-> at.thread, hook |-> at.hook, busy |-> at.busy]}
             ELSE {})

\* The awaited execute has completed: the handler of r resumes on the event
\* loop with the cursor (or the exception) and runs to its next await or to
\* the response. A fetch is cancelled only by a deadline hook installed on
\* the cursor's connection.
Resume(r) ==
    /\ pc[r] = "await"
    /\ future[r].state = "done"
    /\ LET req == request[r]
           fr == frame[r]
           fut == future[r]
           md == metadata(metadata_, files, db)
           hooked == fut.exc = "" /\ Len(fut.rows) > 0
                     /\ HookFor(fut.worker, fr.name, fut.id) # "none"
       IN /\ metadata_' = md.cache
          /\ steps' = steps \cup (IF fut.exc = "" THEN LoopSteps(fut, fr) ELSE {})
          /\ \E interrupted \in (IF hooked THEN BOOLEAN ELSE {FALSE}) :
                IF fut.exc # "" THEN Advance(r, req, Raise(fut.exc, fut.message, fr), FALSE)
                ELSE IF interrupted /\ fr.statement.site # "custom"
                THEN Advance(r, req, Raise("OperationalError", "interrupted", fr), FALSE)
                ELSE Advance(r, req, Continue(req, fr, fut.rows, md.value, page_size),
                             interrupted)
    /\ UNCHANGED <<files, page_size, num_threads, db, request, worker, connections>>

StartState(fs, psize, threads, content) ==
    /\ files = fs
    /\ page_size = psize
    /\ num_threads = threads
    /\ db = [name \in FileStems(fs) |-> content]
    /\ metadata_ = None
    /\ request = [r \in Reqs |-> NoRequest]
    /\ pc = [r \in Reqs |-> "new"]
    /\ frame = [r \in Reqs |-> NoFrame]
    /\ future = [r \in Reqs |-> NoFuture]
    /\ response = [r \in Reqs |-> NoResponse]
    /\ queue = << >>
    /\ worker = [w \in Workers |-> None]
    /\ connections = [w \in Workers |-> << >>]
    /\ submitted = {}
    /\ steps = {}

-----------------------------------------------------------------------------
(* The inputs the specifications draw from *)

\* Every list of at most MaxFiles distinct files, and one with a repeated stem
FileLists ==
    { SelectSeq([i \in 1..Len(Stems) |-> File(Stems[i])], LAMBDA f : f.stem \in S) :
        S \in {T \in SUBSET {Stems[i] : i \in 1..Len(Stems)} :
                  T # {} /\ Cardinality(T) <= MaxFiles} }
    \cup { << File(Chars("fix")), File(Chars("fix")) >> }

CanonicalSlug(stem) == stem \o <<"-">> \o HashPrefix(DigestOf(stem))

\* Slugs: each stem bare, with its digest prefix, with a stale hash and with
\* an empty one; and two that name no file
Slugs ==
    UNION { { Stems[i], CanonicalSlug(Stems[i]), Stems[i] \o Chars("-0000000"),
              Stems[i] \o <<"-">> } : i \in 1..Len(Stems) }
    \cup { Chars("nope"), Chars("nope-a1b2c3d") }

Extensions == { << >>, Chars(".json"), Chars(".jsono") }

\* The routes of Datasette.app with the keyword arguments each passes
Routed(slug, args) ==
    { [route |-> "Database", db_name |-> slug, kwargs |-> [as_json |-> e], args |-> args] :
        e \in Extensions }
    \cup { [route |-> "DatabaseDownload", db_name |-> slug,
            kwargs |-> [as_db |-> Chars(".db")], args |-> args] }
    \cup { [route |-> "Table", db_name |-> slug,
            kwargs |-> [table |-> Chars("simple"), as_json |-> e], args |-> args] :
        e \in Extensions \ {Chars(".jsono")} }
    \cup { [route |-> "Row", db_name |-> slug,
            kwargs |-> [table |-> Chars("simple"), pk_path |-> p, as_json |-> e],
            args |-> args] :
        p \in {Chars("1"), Chars("a%2Cb")}, e \in Extensions \ {Chars(".jsono")} }

ResolverRequests ==
    UNION { Routed(slug, args) :
        slug \in Slugs, args \in { << >>, (Chars("content") :> Chars("x")) } }

\* The canonical slug of the database the query specifications serve
FixSlug == CanonicalSlug(Chars("fix"))

\* Filter arguments of a Table request: none, an exact match, a converted
\* value beside a special key, an unknown lookup, a numeric lookup beside a
\* like, a column that starts with "_", a key with a double quote in it
FilterArgs ==
    { << >>,
      (Chars("content") :> Chars("x")),
      (Chars("pk1__gte") :> Chars("b")) @@ (Chars("content__contains") :> Chars("y"))
          @@ (Chars("_size") :> Chars("9")),
      (Chars("content__foo") :> Chars("x")),
      (Chars("rowid__gt") :> Chars("1")) @@ (Chars("content__like") :> Chars("%")),
      (Chars("_x__exact") :> Chars("1")),
      (Chars("a\" = :p7 or \"b") :> Chars("x")) }

\* _after cursors: absent, empty, a rowid or a single key, encoded keys,
\* pairs, and a triple
AfterArgs ==
    { << >> } \cup
    { (Chars("_after") :> a) :
        a \in { << >>, Chars("1"), Chars("2"), Chars("a%2Cb"), Chars("a,b"), Chars("b,a"),
                Chars("b,b"), Chars("a,b,c") } }

TableNames == { Chars("compound"), Chars("simple"), Chars("plain"), Chars("shown"),
                Chars("missing") }

TableRequests ==
    { [route |-> "Table", db_name |-> FixSlug,
       kwargs |-> [table |-> t, as_json |-> Chars(".json")], args |-> Merge(f, a)] :
        t \in TableNames, f \in FilterArgs, a \in AfterArgs }

\* The statements of the sql argument: accepted ones, ones that do not begin
\* with "select ", ones that mention pragma
CustomSqls ==
    { Chars("select 1"), Chars("  SELECT :x "), Chars("Select * from simple"),
      Chars("select"), Chars("selectx from t"), Chars("update t set a = 1"),
      Chars("PRAGMA table_info(t)"), Chars("select * from pragma_table_list"),
      Chars("select 'PrAgMa'"), Chars(" ") }

CustomRequests ==
    { [route |-> "Database", db_name |-> FixSlug, kwargs |-> [as_json |-> e],
       args |-> Merge((Chars("sql") :> q), a)] :
        e \in {<< >>, Chars(".json")}, q \in CustomSqls,
        a \in { << >>, (Chars("x") :> Chars("1")) } }

RowRequests ==
    { [route |-> "Row", db_name |-> FixSlug,
       kwargs |-> [table |-> t, pk_path |-> p, as_json |-> Chars(".json")], args |-> << >>] :
        t \in TableNames \ {Chars("shown")},
        p \in { Chars("1"), Chars("9"), Chars("a%2Cb"), Chars("a,b"), Chars("b"),
                Chars("a,b,c") } }

DatabaseRequests ==
    { [route |-> "Database", db_name |-> FixSlug, kwargs |-> [as_json |-> e],
       args |-> << >>] : e \in {<< >>, Chars(".json")} }

QueryRequests == TableRequests \cup CustomRequests \cup RowRequests \cup DatabaseRequests

\* The requests that share the pool: a custom statement, a table page, a
\* row, a rejected statement and a slug without its hash
ServerRequests ==
    { [route |-> "Database", db_name |-> FixSlug, kwargs |-> [as_json |-> Chars(".json")],
       args |-> (Chars("sql") :> Chars("select 1"))],
      [route |-> "Database", db_name |-> FixSlug, kwargs |-> [as_json |-> Chars(".json")],
       args |-> (Chars("sql") :> Chars("update t set a = 1"))],
      [route |-> "Table", db_name |-> FixSlug,
       kwargs |-> [table |-> Chars("plain"), as_json |-> Chars(".json")], args |-> << >>],
      [route |-> "Row", db_name |-> FixSlug,
       kwargs |-> [table |-> Chars("simple"), pk_path |-> Chars("1"),
                   as_json |-> Chars(".json")], args |-> << >>],
      [route |-> "Database", db_name |-> Chars("fix"), kwargs |-> [as_json |-> << >>],
       args |-> << >>] }

-----------------------------------------------------------------------------
(* Specifications *)

Arrive == \E req \in ResolverRequests : Get(1, req)
Start == \E w \in Workers : WorkerStart(w)
Finish == \E w \in Workers : WorkerFinish(w)
Wake == \E r \in Reqs : Resume(r)

\* One request of any shape against any catalog
InitResolve == \E fs \in FileLists : StartState(fs, MaxPageSize, NumThreads, Truncate(Fixture, MaxRows))
NextResolve == Arrive \/ Start \/ Finish \/ Wake
SpecResolve == InitResolve /\ [][NextResolve]_vars

\* Concurrent requests on the event loop and the pool's threads
ArriveServer == \E r \in Reqs, req \in ServerRequests : Get(r, req)
Init == StartState(<<File(Chars("fix"))>>, MaxPageSize, NumThreads, Truncate(Fixture, MaxRows))
Next == ArriveServer \/ Start \/ Finish \/ Wake
Spec == Init /\ [][Next]_vars

\* Two kinds of request on a pool of any size up to NumThreads
PoolRequests ==
    { [route |-> "Row", db_name |-> FixSlug,
       kwargs |-> [table |-> Chars("simple"), pk_path |-> Chars("1"),
                   as_json |-> Chars(".json")], args |-> << >>] }

ArrivePool == \E r \in Reqs, req \in PoolRequests : Get(r, req)
InitPool ==
    \E threads \in 1..NumThreads :
        StartState(<<File(Chars("fix"))>>, MaxPageSize, threads, Truncate(Fixture, MaxRows))
NextPool == ArrivePool \/ Start \/ Finish \/ Wake
SpecPool == InitPool /\ [][NextPool]_vars

\* The length of the part of a path segment that the group
\* <as_json:(.jsono?)?$> of a route takes: any one character followed by
\* json or jsono at the end, after a first group of one character at least
Ending(s) ==
    IF Len(s) >= 7 /\ SubSeq(s, Len(s) - 4, Len(s)) = Chars("jsono") THEN 6
    ELSE IF Len(s) >= 6 /\ SubSeq(s, Len(s) - 3, Len(s)) = Chars("json") THEN 5
    ELSE 0

\* A path segment split by <name:[^/]+?><as_json:(.jsono?)?$>
Lazy(s) == <<SubSeq(s, 1, Len(s) - Ending(s)), SubSeq(s, Len(s) - Ending(s) + 1, Len(s))>>

\* The query string parsed into request.args: pairs split at "&" and at the
\* first "=", percent-decoded; the first value of a key, blank values dropped
parse_qs(qs) ==
    LET pairs == IF Len(qs) = 0 THEN << >> ELSE split(qs, "&")
        KeyOf(pair) == unquote_plus(split(pair, "=")[1])
        ValueOf(pair) ==
            IF Contains(pair, <<"=">>)
            THEN unquote_plus(SubSeq(pair, Len(split(pair, "=")[1]) + 2, Len(pair)))
            ELSE << >>
        kept == {i \in 1..Len(pairs) : Len(ValueOf(pairs[i])) > 0}
    IN [k \in {KeyOf(pairs[i]) : i \in kept} |->
           ValueOf(pairs[CHOOSE i \in kept :
               KeyOf(pairs[i]) = k /\ \A j \in kept : KeyOf(pairs[j]) = k => i <= j])]

\* The routes of Datasette.app applied to the target of a link or of a
\* Location header: the routed request, or NoRequest when no route with a
\* database matches
Route(target) ==
    LET path == split(target, "?")[1]
        args == parse_qs(SubSeq(target, Len(path) + 2, Len(target)))
        segments == IF Len(path) > 0 /\ path[1] = "/"
                    THEN split(Tail(path), "/") ELSE << >>
        first == segments[1]
        last == Lazy(segments[Len(segments)])
        named == \A i \in 1..Len(segments) : Len(segments[i]) > 0
    IN IF Len(segments) = 0 \/ Len(segments) > 3 \/ ~named THEN NoRequest
       ELSE IF Len(segments) = 1
       THEN IF ~Contains(last[1], <<".">>)
            THEN [route |-> "Database", db_name |-> last[1],
                  kwargs |-> [as_json |-> last[2]], args |-> args]
            ELSE IF Len(first) > 3 /\ SubSeq(first, Len(first) - 2, Len(first)) = Chars(".db")
            THEN [route |-> "DatabaseDownload", db_name |-> SubSeq(first, 1, Len(first) - 3),
                  kwargs |-> [as_db |-> Chars(".db")], args |-> args]
            ELSE NoRequest
       ELSE IF Len(segments) = 2
       THEN [route |-> "Table", db_name |-> first,
             kwargs |-> [table |-> last[1], as_json |-> last[2]], args |-> args]
       ELSE [route |-> "Row", db_name |-> first,
             kwargs |-> [table |-> segments[2], pk_path |-> last[1], as_json |-> last[2]],
             args |-> args]

\* A client follows the redirect it received: the Location is requested
FollowRedirect ==
    \E r \in Reqs \ {1} :
        /\ pc[r - 1] = "done"
        /\ response[r - 1].status = 302
        /\ Route(response[r - 1].location) # NoRequest
        /\ Get(r, Route(response[r - 1].location))

\* One request of any shape against any catalog, and the requests its
\* redirects lead to
NextFollow == Arrive \/ FollowRedirect \/ Start \/ Finish \/ Wake
SpecFollow == InitResolve /\ [][NextFollow]_vars

\* A client pages through a table or view: the first page without a
\* cursor, then, as long as the page answered carries one, the same request
\* with the returned after as _after
TraverseFilters == { << >>, (Chars("content__gt") :> Chars("w")) }

TraverseTables == { Chars("compound"), Chars("simple"), Chars("plain"), Chars("shown") }

FirstPage ==
    \E t \in TraverseTables, f \in TraverseFilters :
        Get(1, [route |-> "Table", db_name |-> FixSlug,
                kwargs |-> [table |-> t, as_json |-> Chars(".json")], args |-> f])

NextPage ==
    \E r \in Reqs \ {1} :
        /\ pc[r - 1] = "done"
        /\ response[r - 1].status = 200
        /\ ~IsNone(response[r - 1].data.after)
        /\ Get(r, [request[r - 1] EXCEPT
                      !.args = Merge(@, (Chars("_after") :> Val(response[r - 1].data.after)))])

InitTraverse ==
    \E psize \in 1..MaxPageSize, k \in 0..MaxRows :
        StartState(<<File(Chars("fix"))>>, psize, NumThreads, Truncate(Fixture, k))
NextTraverse == FirstPage \/ NextPage \/ Start \/ Finish \/ Wake
SpecTraverse == InitTraverse /\ [][NextTraverse]_vars

\* One request with a canonical slug, of any query shape, against one
\* database file of any size and any page size
ArriveQuery == \E req \in QueryRequests : Get(1, req)
InitQuery ==
    \E psize \in 1..MaxPageSize, k \in 0..MaxRows :
        StartState(<<File(Chars("fix"))>>, psize, NumThreads, Truncate(Fixture, k))
NextQuery == ArriveQuery \/ Start \/ Finish \/ Wake
SpecQuery == InitQuery /\ [][NextQuery]_vars

-----------------------------------------------------------------------------
(* Properties of the resolver *)

Arrived == {r \in Reqs : pc[r] # "new"}

\* view_get was called for request r
Dispatched(r) == frame[r].view

Redirected(r) == pc[r] = "done" /\ response[r].status = 302

\* The first seven characters of a digest
Digest7(hash) == SubSeq(hash, 1, 7)

\* C1: a database-scoped request whose slug resolves to the catalog entry D
\* is either dispatched to its handler, and then the hash in the slug is the
\* first seven characters of D's digest, or answered by a 302 whose Location
\* contains <name>-<digest7>, never both and never neither; and for a slug
\* with a missing or stale hash no handler runs and no SQL is submitted.
TheoremC1 ==
    \A r \in Arrived :
        Truthy(metadata_) =>
            LET catalog == Val(metadata_)
                parts == SlugParts(catalog, request[r].db_name)
            IN parts.name \in DOMAIN catalog =>
                LET d7 == Digest7(catalog[parts.name].hash)
                    matches == parts.hash = Some(d7)
                    dispatched == Dispatched(r) /\ matches
                    redirected == Redirected(r)
                                  /\ Contains(response[r].location, parts.name \o <<"-">> \o d7)
                IN /\ dispatched # redirected
                   /\ ~matches => /\ ~Dispatched(r)
                                  /\ \A s \in submitted : s.req # r

\* A request with a stale hash in its slug was answered by a redirect
WitnessC1 ==
    \E r \in Arrived :
        /\ Truthy(metadata_)
        /\ Redirected(r)
        /\ ~IsNone(SlugParts(Val(metadata_), request[r].db_name).hash)

\* The path of the request after its slug
RemainingPath(req) ==
    SubSeq(RequestPath(req), 2 + Len(req.db_name), Len(RequestPath(req)))

\* C2: a redirect goes to /<name>-<expected> followed by the rest of the
\* request's path and by its query string, unchanged, and the Link header
\* names the same target, for every route shape.
ClaimC2 ==
    \A r \in Arrived :
        Redirected(r) =>
            LET req == request[r]
                target == <<"/">> \o frame[r].name \o <<"-">> \o frame[r].hash
                          \o RemainingPath(req)
                          \o (IF Len(QueryString(req)) > 0 THEN <<"?">> \o QueryString(req)
                              ELSE << >>)
            IN /\ response[r].location = target
               /\ response[r].link = <<"<">> \o target \o Chars(">; rel=preload")

IsHexLower(c) == IsDigit(c) \/ c \in {"a", "b", "c", "d", "e", "f"}

\* A name that ends in "-" and seven hexadecimal characters
HashLike(name) ==
    /\ Len(name) > 8
    /\ name[Len(name) - 7] = "-"
    /\ \A i \in (Len(name) - 6)..Len(name) : IsHexLower(name[i])

\* The slugs that should name the entry: its name, and its name with its
\* digest prefix
SlugsOf(catalog, name) == {name, name \o <<"-">> \o Digest7(catalog[name].hash)}

ResolvesOwnSlugs(r, catalog) ==
    \A name \in DOMAIN catalog :
        request[r].db_name \in SlugsOf(catalog, name) =>
            /\ frame[r].name = name
            /\ Dispatched(r) \/ Redirected(r)

\* C3, as stated: in a catalog none of whose names ends in "-" and seven
\* hexadecimal characters, the slug N and the slug N-<digest7 of N> resolve
\* to the entry N.
ClaimC3 ==
    \A r \in Arrived :
        Truthy(metadata_) /\ (\A n \in DOMAIN Val(metadata_) : ~HashLike(n))
            => ResolvesOwnSlugs(r, Val(metadata_))

\* A catalog name whose part before its last "-" is a catalog name too
Shadowed(catalog, name) ==
    Contains(name, <<"-">>) /\ rsplit1(name, <<"-">>)[1] \in DOMAIN catalog

\* C3, amended: in a catalog in which no name is another name followed by
\* "-" and a suffix without "-", the slug N and the slug N-<digest7 of N> resolve to
\* the entry N.
TheoremC3 ==
    \A r \in Arrived :
        Truthy(metadata_) /\ (\A n \in DOMAIN Val(metadata_) : ~Shadowed(Val(metadata_), n))
            => ResolvesOwnSlugs(r, Val(metadata_))

\* A hyphenated name was requested without a hash and resolved by the
\* fallback to the whole slug
WitnessC3 ==
    \E r \in Arrived :
        /\ Truthy(metadata_)
        /\ \A n \in DOMAIN Val(metadata_) : ~Shadowed(Val(metadata_), n)
        /\ request[r].db_name \in DOMAIN Val(metadata_)
        /\ Contains(request[r].db_name, <<"-">>)
        /\ Redirected(r)
        /\ frame[r].name = request[r].db_name

-----------------------------------------------------------------------------
(* Properties of execute and of the handlers' error handling *)

Done == {r \in Reqs : pc[r] = "done"}

\* The 400 payload of view_get
ErrorPayload(r) ==
    /\ response[r].status = 400
    /\ response[r].keys = {"ok", "error", "database", "database_hash", "query_ms"}
    /\ Len(response[r].data.rows) = 0

\* C4: a statement cancelled by its deadline ends as the 400 error payload,
\* never as rows, and every engine step of a statement, the fetching of its
\* rows included, is made while that statement's deadline hook is installed.
ClaimC4 ==
    /\ \A r \in Done : response[r].error = "interrupted" => ErrorPayload(r)
    /\ \A s \in steps : s.op \in {"execute", "fetch"} => s.hook = "own"

\* The classes of sqlite3 an engine failure is raised as
EngineErrors == {"OperationalError", "ProgrammingError"}

\* C7: InvalidSql and every engine failure raised while the handler produces
\* its data end as the 400 error payload and never leave the handler, and
\* only NotFound is answered 404.
ClaimC7 ==
    \A r \in Done :
        /\ response[r].unhandled \notin EngineErrors \cup {"InvalidSql"}
        /\ response[r].error \in {"engine error", "interrupted"} => ErrorPayload(r)
        /\ response[r].status = 404 => response[r].unhandled = "NotFound"

FilterKeys(req) == {k \in DOMAIN req.args : ~(StartsWith(k, <<"_">>) /\ ~Contains(k, Chars("__")))}

KnownLookups == { Chars("exact"), Chars("contains"), Chars("startswith"), Chars("endswith"),
                  Chars("gt"), Chars("gte"), Chars("lt"), Chars("lte"), Chars("like"),
                  Chars("glob") }

\* The key is column__op with op outside the lookups
UnknownLookup(key) ==
    Contains(key, Chars("__")) /\ rsplit1(key, Chars("__"))[2] \notin KnownLookups

\* C8: a Table request (of an existing table) with an unknown lookup in a
\* filter key ends as the 400 error payload, and its page SELECT is never
\* submitted.
ClaimC8 ==
    \A r \in Arrived :
        /\ request[r].route = "Table"
        /\ unquote_plus(request[r].kwargs.table) \in DOMAIN db[frame[r].name]
        /\ \E k \in FilterKeys(request[r]) : UnknownLookup(k)
        => /\ \A s \in submitted : s.req = r => s.site # "page"
           /\ pc[r] = "done" => ErrorPayload(r)

\* The sql argument of a request for a custom statement
HasSql(req) == req.route = "Database" /\ Chars("sql") \in DOMAIN req.args
SqlOf(req) == req.args[Chars("sql")]

\* Trimmed and lowercased, the text begins with "select " and does not
\* contain "pragma"
Acceptable(sql) ==
    LET text == lower(strip(sql))
    IN /\ Len(text) >= 7
       /\ SubSeq(text, 1, 7) = <<"s", "e", "l", "e", "c", "t", " ">>
       /\ \A i \in 1..Len(text) :
             i + 5 <= Len(text) => SubSeq(text, i, i + 5) # <<"p", "r", "a", "g", "m", "a">>

\* C9: a statement of the sql argument is submitted to the pool only if,
\* trimmed and lowercased, it begins with "select " and does not contain
\* "pragma"; a rejected one is answered 400 with the validator's message and
\* is never executed.
TheoremC9 ==
    \A r \in Arrived :
        HasSql(request[r]) /\ Dispatched(r) =>
            /\ \A s \in submitted : s.req = r =>
                  s.site = "custom" /\ s.sql = SqlOf(request[r]) /\ Acceptable(s.sql)
            /\ ~Acceptable(SqlOf(request[r])) =>
                  /\ pc[r] = "done"
                  /\ ErrorPayload(r)
                  /\ response[r].error \in {"Statement must begin with SELECT",
                                            "Statement may not contain PRAGMA"}
                  /\ \A s \in submitted : s.req # r
                  /\ steps = {}

\* A statement that begins with "select " and mentions pragma was rejected
WitnessC9 ==
    \E r \in Done :
        /\ HasSql(request[r])
        /\ response[r].error = "Statement may not contain PRAGMA"
        /\ response[r].status = 400

-----------------------------------------------------------------------------
(* Properties of the Table page *)

\* Table requests answered with a page
Pages == {r \in Done : request[r].route = "Table" /\ response[r].status = 200}

\* The primary-key tuple of a row
PkTuple(row, pks) == [i \in 1..Len(pks) |-> row.cells[pks[i]]]

\* a < b for tuples of one length, the leftmost component the most significant
RECURSIVE TupleLess(_, _)
TupleLess(a, b) ==
    IF Len(a) = 0 \/ Len(b) = 0 THEN FALSE
    ELSE IF a[1] = b[1] THEN TupleLess(Tail(a), Tail(b))
    ELSE StrLess(a[1], b[1])

\* C5: on a table with a compound primary key, an _after cursor of as many
\* components as the key selects exactly the rows whose key tuple is
\* lexicographically greater than the cursor; a cursor of another length adds
\* no comparison.
ClaimC5 ==
    \A r \in Pages :
        /\ Len(frame[r].pks) >= 2
        /\ DOMAIN request[r].args = {Chars("_after")}
        => LET cursor == compound_pks_from_path(request[r].args[Chars("_after")])
               pks == frame[r].pks
               statement == frame[r].statement
               table == db[frame[r].name][statement.query.table]
               selected == Select(db[frame[r].name], [statement.query EXCEPT !.limit = 0],
                                  statement.params)
           IN IF Len(cursor) = Len(pks)
              THEN {selected[i] : i \in 1..Len(selected)}
                   = {table.rows[i] : i \in {j \in 1..Len(table.rows) :
                          TupleLess(cursor, PkTuple(table.rows[j], pks))}}
              ELSE Len(statement.query.clauses) = 0 /\ DOMAIN statement.params = {}

\* s ends with suffix
EndsWith(s, suffix) ==
    Len(s) >= Len(suffix) /\ SubSeq(s, Len(s) - Len(suffix) + 1, Len(s)) = suffix

\* The cursor decodes to the key of the row: its rowid, its primary-key
\* tuple, or (a view has neither) nothing
Encodes(cursor, row, pks, is_view) ==
    IF Len(pks) > 0 THEN compound_pks_from_path(cursor) = PkTuple(row, pks)
    ELSE IF is_view THEN cursor = << >>
    ELSE unquote_plus(cursor) = str(row.rowid)

\* C6: the page's SELECT is limited to page_size + 1 rows; the rows returned
\* are the first page_size fetched at most; after and after_link are produced
\* exactly when more than page_size rows were fetched; the cursor encodes the
\* key of the last row returned, the second-to-last row fetched.
TheoremC6 ==
    \A r \in Pages :
        LET data == response[r].data
            fetched == frame[r].rows
            statement == frame[r].statement
            more == Len(fetched) > page_size
        IN /\ statement.site = "page"
           /\ statement.query.limit = page_size + 1
           /\ EndsWith(statement.sql, Chars("limit ") \o str(page_size + 1))
           /\ Len(data.rows) <= page_size
           /\ data.rows = SubSeq(fetched, 1, IF more THEN page_size ELSE Len(fetched))
           /\ (data.after # None) <=> more
           /\ (data.after_link # None) <=> more
           /\ more =>
                /\ data.rows[Len(data.rows)] = fetched[Len(fetched) - 1]
                /\ Encodes(Val(data.after), data.rows[Len(data.rows)], frame[r].pks,
                           frame[r].is_view)

\* A page of a table with a primary key was cut at page_size rows of several
\* and carries a cursor
WitnessC6 ==
    \E r \in Pages :
        /\ Len(frame[r].pks) > 0
        /\ page_size > 1
        /\ Len(frame[r].rows) = page_size + 1
        /\ Len(response[r].data.rows) = page_size
        /\ response[r].data.after # None

\* A letter, a digit or an underscore
IsNameChar(c) == IsAlpha(c) \/ IsDigit(c) \/ c = "_"

\* Position i of the text starts a named parameter: a colon outside
\* double-quoted names, followed by a name
PlaceholderAt(text, i) ==
    /\ text[i] = ":"
    /\ i < Len(text)
    /\ IsNameChar(text[i + 1])
    /\ Cardinality({j \in 1..(i - 1) : text[j] = "\""}) % 2 = 0

\* The name of the parameter that starts at position i
PlaceholderName(text, i) ==
    LET last == CHOOSE e \in (i + 1)..Len(text) :
                    /\ \A j \in (i + 1)..e : IsNameChar(text[j])
                    /\ e = Len(text) \/ ~IsNameChar(text[e + 1])
    IN SubSeq(text, i + 1, last)

Placeholders(text) ==
    {PlaceholderName(text, i) : i \in {j \in 1..Len(text) : PlaceholderAt(text, j)}}

PlaceholderCount(text) == Cardinality({j \in 1..Len(text) : PlaceholderAt(text, j)})

\* C10: in the page's SELECT every filter key, by its rank among the sorted
\* filter keys, has one WHERE clause with the single placeholder :p<rank>,
\* which is bound; special keys have no filter clause; the text of the
\* statement does not depend on the values of the filter keys.
ClaimC10 ==
    \A r \in Arrived :
        request[r].route = "Table" /\ frame[r].statement.site = "page" =>
            LET args == request[r].args
                keys == Sorted(FilterKeys(request[r]))
                statement == frame[r].statement
                clauses == statement.query.clauses
                blank == [k \in DOMAIN args |-> IF k \in FilterKeys(request[r])
                                                  THEN << >> ELSE args[k]]
            IN /\ Len(clauses) >= Len(keys)
               /\ Chars("_after") \notin DOMAIN args => Len(clauses) = Len(keys)
               /\ \A i \in 1..Len(keys) :
                     /\ PlaceholderCount(clauses[i].text) = 1
                     /\ Placeholders(clauses[i].text) = {ParamId(i - 1)}
                     /\ ParamId(i - 1) \in DOMAIN statement.params
               /\ statement.sql =
                     TablePageStatement(blank, statement.query.table, frame[r].pks,
                                        frame[r].is_view, page_size).statement.sql

-----------------------------------------------------------------------------
(* Properties of the catalog *)

\* C11: the catalog is built before any request is accepted and a repeated
\* stem is an error of startup: with a repeated stem no request is ever
\* accepted, and otherwise every step of request handling finds the catalog
\* built and leaves it as it is.
ClaimC11 ==
    [][IF HasDuplicateStem(files)
       THEN \A r \in Reqs : pc'[r] = "new"
       ELSE Truthy(metadata_) /\ metadata_' = metadata_]_vars

\* C12: once a request has been served the stored catalog is never changed
\* by a later step, on the event loop or on a pool thread, and every read of
\* it returns that one mapping.
TheoremC12 ==
    [][(\E r \in Reqs : pc[r] = "done") =>
          /\ ~IsNone(metadata_)
          /\ metadata_' = metadata_
          /\ ~metadata(metadata_, files, db).raises
          /\ metadata(metadata_, files, db).value = Val(metadata_)
          /\ metadata(metadata_', files', db').value = Val(metadata_)]_vars

\* Two requests were served, and a pool thread read the catalog to open its
\* connection
WitnessC12 ==
    /\ \A r \in Reqs : pc[r] = "done"
    /\ \E w \in Workers : DOMAIN connections[w] # {}
    /\ ~IsNone(metadata_)

-----------------------------------------------------------------------------
(* Properties of the Row handler and of the cursor codec *)

\* The rows of the table whose key (its primary-key tuple, or its rowid when
\* the table has no primary key) is the tuple of values
Identified(table, values) ==
    {table.rows[i] : i \in {j \in 1..Len(table.rows) :
        IF Len(table.pks) = 0
        THEN values = <<str(table.rows[j].rowid)>>
        ELSE values = PkTuple(table.rows[j], table.pks)}}

\* C13: a Row request binds the decoded components of pk_path to one
\* equality per key column, in key order; a pk_path that identifies no row
\* of the table, whatever its number of components, is answered 404
\* (NotFound), and one that identifies a row is answered with that row and
\* the decoded primary_key_values.
ClaimC13 ==
    \A r \in Done :
        /\ request[r].route = "Row"
        /\ unquote_plus(request[r].kwargs.table) \in DOMAIN db[frame[r].name]
        /\ response[r].error # "interrupted"
        => LET table == db[frame[r].name][unquote_plus(request[r].kwargs.table)]
               values == compound_pks_from_path(request[r].kwargs.pk_path)
               keys == IF Len(table.pks) = 0 THEN <<Chars("rowid")>> ELSE table.pks
               where == frame[r].statement.query.clauses
           IN /\ frame[r].statement.site = "row"
              /\ Len(where) = Len(keys)
              /\ \A i \in 1..Len(keys) :
                    /\ where[i].column = keys[i]
                    /\ where[i].operator = Chars("=")
                    /\ i <= Len(values) =>
                          frame[r].statement.params[where[i].param] = StrParam(values[i])
              /\ IF Identified(table, values) = {}
                 THEN response[r].status = 404 /\ response[r].unhandled = "NotFound"
                 ELSE /\ response[r].status = 200
                      /\ {response[r].data.rows[i] : i \in 1..Len(response[r].data.rows)}
                         = Identified(table, values)
                      /\ response[r].data.primary_key_values = values

\* The key lists tried on a table: one or two of its columns
KeyLists(table) ==
    LET cols == {table.columns[i] : i \in 1..Len(table.columns)}
    IN {<<c>> : c \in cols} \cup {<<c, d>> : c \in cols, d \in cols}

\* decode(encode(row, pks, use_rowid))
Decoded(row, pks, use_rowid) == compound_pks_from_path(path_from_row_pks(row, pks, use_rowid))

\* The decoded cursor is the key of the row, value by value
RoundTrip(row, pks, use_rowid) ==
    /\ Decoded(row, pks, use_rowid)
       = (IF use_rowid THEN <<str(row.rowid)>> ELSE PkTuple(row, pks))
    /\ Len(Decoded(row, pks, use_rowid)) = (IF use_rowid THEN 1 ELSE Len(pks))

\* C14, as stated: for every row of a table served, every key list (the
\* empty one too) and either use_rowid, decoding the encoded cursor gives
\* the row's key values in key order, as many as there are keys.
ClaimC14 ==
    \A r \in Pages :
        LET table == db[frame[r].name][frame[r].table]
        IN \A i \in 1..Len(table.rows), pks \in KeyLists(table) \cup {<< >>},
              use_rowid \in BOOLEAN :
                RoundTrip(table.rows[i], pks, use_rowid)

\* C14, amended: the same for every key list that is not empty (and for the
\* rowid), the values compared as the strings the cursor carries.
TheoremC14 ==
    \A r \in Pages :
        LET table == db[frame[r].name][frame[r].table]
        IN \A i \in 1..Len(table.rows), pks \in KeyLists(table), use_rowid \in BOOLEAN :
                RoundTrip(table.rows[i], pks, use_rowid)

\* A page ended at a row whose key holds a comma, and its cursor carries the
\* comma encoded
WitnessC14 ==
    \E r \in Pages :
        /\ response[r].data.after # None
        /\ Contains(Val(response[r].data.after), Chars("%2C"))
        /\ Len(compound_pks_from_path(Val(response[r].data.after))) = Len(frame[r].pks)

-----------------------------------------------------------------------------
(* Properties of the Database page *)

\* tables[i].name, in the order of the response
TableNamesOf(tables) == [i \in 1..Len(tables) |-> tables[i].name]

\* C15: a Database request for JSON without sql, when it succeeds, is
\* answered 200 with a body of the keys database, tables, views, query_ms
\* and database_hash, its tables sorted by name.
ClaimC15 ==
    \A r \in Done :
        /\ request[r].route = "Database"
        /\ ~HasSql(request[r])
        /\ IsJson(request[r])
        /\ Dispatched(r)
        /\ response[r].status \notin {400, 500}
        => /\ response[r].status = 200
           /\ response[r].json
           /\ response[r].keys = {"database", "tables", "views", "query_ms", "database_hash"}
           /\ \A i, j \in 1..Len(response[r].data.tables) :
                 i < j => StrLess(response[r].data.tables[i].name,
                                  response[r].data.tables[j].name)

-----------------------------------------------------------------------------
(* Properties of the pool's threads and connections *)

\* C16: every engine operation on a connection or on a cursor of it (the
\* execution of a statement, the stepping of its rows, the reading of its
\* description) is made by the pool thread that opened the connection, and
\* never while that connection is executing another statement.
ClaimC16 ==
    \A s \in steps : s.thread = "worker" /\ ~s.busy

\* C17: whenever a pool thread is running no execute call, none of its
\* connections has a deadline hook installed, also after a statement that
\* raised or was cancelled.
ClaimC17 ==
    \A w \in Workers :
        IsNone(worker[w]) =>
            \A name \in DOMAIN connections[w] : IsNone(connections[w][name].handler)

\* C18: when the awaited execute completes the rows of the statement are
\* already fetched, on the pool thread, and nothing is left to the engine:
\* no rows are stepped on the event loop and no response is built from a
\* cursor that is still to be read.
ClaimC18 ==
    /\ \A s \in steps : s.op = "fetch" => s.thread = "worker"
    /\ \A r \in Done : ~response[r].data.lazy

\* The connections in the cache of pool thread w
Cached(w) == {connections[w][name] : name \in DOMAIN connections[w]}

\* C19: a connection is opened by the first execute for its database on a
\* pool thread and by nothing else, it stays in that thread's cache and is
\* the one every later execute for that database on that thread uses, also
\* after a failed statement; no connection is in the caches of two threads.
TheoremC19 ==
    [][\A w \in Workers :
          /\ \A name \in DOMAIN connections[w] :
                /\ name \in DOMAIN connections'[w]
                /\ connections'[w][name].id = connections[w][name].id
                /\ connections'[w][name].file = connections[w][name].file
          /\ \A name \in DOMAIN connections'[w] \ DOMAIN connections[w] :
                /\ IsNone(worker[w]) /\ ~IsNone(worker'[w])
                /\ Val(worker'[w]).db_name = name
                /\ connections'[w][name].id = <<w, Val(worker'[w]).id>>
          /\ ~IsNone(worker'[w]) => Val(worker'[w]).db_name \in DOMAIN connections'[w]
          /\ \A v \in Workers \ {w} :
                {c.id : c \in Cached(w)} \cap {c.id : c \in Cached(v)} = {}]_vars

\* A pool thread runs a statement on the connection that the cancelled
\* statement of an earlier request opened
WitnessC19 ==
    \E w \in Workers, r \in Done :
        /\ ~IsNone(worker[w])
        /\ Val(worker[w]).req # r
        /\ connections[w][Val(worker[w]).db_name].id = <<w, <<r, frame[r].count>>>>
        /\ response[r].error = "interrupted"
        /\ response[r].status = 400

\* The pool threads that are executing a statement
Executing == {w \in Workers : ~IsNone(worker[w])}

\* The statements of request r that are queued or executing
InFlight(r) ==
    {queue[i].id : i \in {j \in 1..Len(queue) : queue[j].req = r}}
    \cup {Val(worker[w]).id : w \in {v \in Executing : Val(worker[v]).req = r}}

\* At most num_threads statements execute; a request has at most one
\* statement queued or executing, the latest one of its handler, which is
\* suspended on it
PoolState ==
    /\ Cardinality(Executing) <= num_threads
    /\ \A r \in Reqs :
          /\ Cardinality(InFlight(r)) <= 1
          /\ Cardinality({i \in 1..Len(queue) : queue[i].req = r})
             + Cardinality({w \in Executing : Val(worker[w]).req = r}) <= 1
          /\ InFlight(r) # {} =>
                /\ pc[r] = "await"
                /\ InFlight(r) = {<<r, frame[r].count>>}
                /\ future[r].id = <<r, frame[r].count>>

-----------------------------------------------------------------------------
(* Properties of a traversal *)

\* The pages 1..r of the traversal were all answered with a page
Traversed(r) == \A q \in 1..r : q \in Pages

\* The rows the client has seen on the pages 1..r, in the order received
RECURSIVE SeenRows(_)
SeenRows(r) == IF r = 0 THEN << >> ELSE SeenRows(r - 1) \o response[r].data.rows

\* The rows that match the filters of the traversal, in the ORDER BY order:
\* the first page's SELECT (it has no cursor) without its limit
Matching ==
    Select(db[frame[1].name], [frame[1].statement.query EXCEPT !.limit = 0],
           frame[1].statement.params)

\* C21: a client that requests the first page and then follows the returned
\* after cursor as _after sees every row matching the filters exactly once,
\* in the ORDER BY order: the rows seen so far are always the first of the
\* matching rows, every page that carries a cursor brings a row, and when a
\* page without cursor arrives the rows seen are all the matching rows.
ClaimC21 ==
    \A r \in Reqs :
        Traversed(r) =>
            LET seen == SeenRows(r)
                last == response[r].data
            IN /\ Len(seen) <= Len(Matching)
               /\ seen = SubSeq(Matching, 1, Len(seen))
               /\ ~IsNone(last.after) => Len(last.rows) >= 1
               /\ IsNone(last.after) => seen = Matching

-----------------------------------------------------------------------------
(* Properties of a followed redirect *)

\* Request r is the request the redirect answered to r - 1 leads to
Follows(r) ==
    /\ r > 1
    /\ Redirected(r - 1)
    /\ pc[r] # "new"
    /\ request[r] = Route(response[r - 1].location)

-----------------------------------------------------------------------------
(* Properties of the page's parameters *)

\* The number of placeholders in the texts of the clauses
RECURSIVE PlaceholderTotal(_)
PlaceholderTotal(clauses) ==
    IF Len(clauses) = 0 THEN 0
    ELSE PlaceholderCount(clauses[1].text) + PlaceholderTotal(Tail(clauses))

\* The names of the placeholders in the texts of the clauses
PlaceholderNames(clauses) ==
    UNION {Placeholders(clauses[i].text) : i \in 1..Len(clauses)}

\* C23: in the page's SELECT the placeholders of the WHERE clause have
\* pairwise distinct names, which are exactly the names of the bound
\* parameters; the placeholders of the _after cursor take no name that occurs
\* in a filter clause, and every filter key keeps the value bound for it.
ClaimC23 ==
    \A r \in Arrived :
        request[r].route = "Table" /\ frame[r].statement.site = "page" =>
            LET req == request[r]
                keys == Sorted(FilterKeys(req))
                statement == frame[r].statement
                clauses == statement.query.clauses
                filters == SubSeq(clauses, 1, Len(keys))
                cursor == SubSeq(clauses, Len(keys) + 1, Len(clauses))
            IN /\ PlaceholderTotal(clauses) = Cardinality(PlaceholderNames(clauses))
               /\ PlaceholderNames(clauses) = DOMAIN statement.params
               /\ PlaceholderNames(cursor) \cap PlaceholderNames(filters) = {}
               /\ \A i \in 1..Len(keys) :
                     /\ ParamId(i - 1) \in DOMAIN statement.params
                     /\ statement.params[ParamId(i - 1)]
                            = ConvertValue(KeyLookup(keys[i]), req.args[keys[i]])

=============================================================================
